---- MODULE Spec2Model ----
(***************************************************************************)
(* A model of pspnet.py: the tiling (predict_sliding), the multi-scale     *)
(* aggregation (predict_multi_scale), the direct prediction                *)
(* (PSPNet.predict), the weight import (PSPNet.set_npy_weights), the       *)
(* heatmap viewers and the command-line main flow.                         *)
(*                                                                         *)
(* Arrays are records [shape |-> <<rows, cols>>, px or v |-> function]     *)
(* indexed from 0 as in numpy.  Scores are exact rationals [n, d]; d = 0   *)
(* stands for the IEEE results of a division by zero (0/0 = nan).          *)
(* One entry point runs per behaviour; `op` names it.  __main__ runs the   *)
(* weight import (through the constructor) and the viewers as its callees. *)
(***************************************************************************)
EXTENDS Integers, Sequences, FiniteSets, TLC

VARIABLES
    op,                 \* the entry point this behaviour exercises
    pc,                 \* position inside that entry point
    net,                \* the PSPNet object: input_shape, classes, model
    flip_evaluation,    \* the flip flag handed down to PSPNet.predict
    \* predict_sliding
    full_image,         \* its image argument
    stride, tile_rows, tile_cols,
    row, col,           \* loop indices of the tile loop
    tile,               \* the rectangle of the tile just processed
    pad,                \* rows_missing / cols_missing of the last pad_image
    tile_counter,
    full_probs, count_predictions,
    \* predict_multi_scale
    ms_image,           \* its full_image argument
    scales, scale_idx, sliding_evaluation,
    scaled_img, scaled_probs, ms_full_probs,
    \* PSPNet.predict called directly
    predict_img,        \* its img argument
    prediction,         \* predict(img)
    mirrored,           \* fliplr(predict(fliplr(img)))
    \* show_class_heatmap / show_class_heatmaps
    class_name, hm_shown, hm_reported, raised,
    num_classes, curr_index, last_key, key_events, redraws,
    \* set_npy_weights
    layers, layer_idx, weight, weights_set, warnings, files_written,
    \* __main__
    args, keras_found, image_shape, pspnet, report, predictor_calls, view,
    outputs

vars == <<op, pc, net, flip_evaluation, full_image, stride, tile_rows,
          tile_cols, row, col, tile, pad, tile_counter, full_probs,
          count_predictions, ms_image, scales, scale_idx,
          sliding_evaluation, scaled_img, scaled_probs, ms_full_probs,
          predict_img, prediction, mirrored, class_name, hm_shown,
          hm_reported, raised, num_classes,
          curr_index, last_key, key_events, redraws, layers, layer_idx,
          weight, weights_set, warnings, files_written, args, keras_found,
          image_shape, pspnet, report, predictor_calls, view, outputs>>

slidingVars == <<full_image, stride, tile_rows, tile_cols, row, col, tile,
                 pad, tile_counter, full_probs, count_predictions>>
msVars      == <<ms_image, scales, scale_idx, sliding_evaluation,
                 scaled_img, scaled_probs, ms_full_probs>>
directVars  == <<predict_img, prediction, mirrored>>
heatVars    == <<class_name, hm_shown, hm_reported, num_classes, curr_index,
                 last_key, key_events, redraws>>
npyVars     == <<layers, layer_idx, weight, weights_set, warnings,
                 files_written>>
mainVars    == <<args, keras_found, image_shape, pspnet, report,
                 predictor_calls, view, outputs>>

None == "none"

\* the value of pspnet while the name is not bound (__main__)
NoNet == [cls |-> "none", nb_classes |-> 0, input_shape |-> <<0, 0>>,
          labels |-> FALSE]

\* the value of `weight` in set_npy_weights while the local is not bound
Unbound == [bound |-> FALSE, of |-> <<>>, kshape |-> "none"]

(***************************************************************************)
(* Bounds of the model.                                                    *)
(***************************************************************************)
MaxH       == 16    \* image heights 1..MaxH for predict_sliding
MaxW       == 3     \* image widths 1..MaxW for predict_sliding
NumClasses == 2     \* net.model.outputs[0].shape[3]
MaxScales  == 2     \* length of the scale list
MaxLayers  == 2     \* layers of the keras model in set_npy_weights
MaxEvents  == 4     \* key presses while the heatmap window is open
MaxClasses == 3     \* class_scores.shape[2] in the heatmap viewers

TileHeights == {1, 2, 3, 9}
TileWidths  == {1, 2, 3, 9}

(***************************************************************************)
(* Arithmetic helpers.                                                     *)
(***************************************************************************)
Min(a, b) == IF a <= b THEN a ELSE b
Max(a, b) == IF a >= b THEN a ELSE b
Abs(a)    == IF a < 0 THEN -a ELSE a

\* math.ceil(a / b) for integers a and b > 0 under true division: the double
\* quotient of two small integers is an integer only when b divides a.
CeilDiv(a, b) == -((-a) \div b)

RECURSIVE GCD(_, _)
GCD(a, b) == IF b = 0 THEN a ELSE GCD(b, a % b)

Rat(n, d) ==
    IF d = 0 THEN [n |-> IF n > 0 THEN 1 ELSE IF n < 0 THEN -1 ELSE 0, d |-> 0]
    ELSE LET g == GCD(Abs(n), Abs(d))
             s == IF d < 0 THEN -1 ELSE 1
         IN  [n |-> s * (n \div g), d |-> s * (d \div g)]

Zero == [n |-> 0, d |-> 1]
One  == [n |-> 1, d |-> 1]
NaN  == [n |-> 0, d |-> 0]

RatAdd(a, b) ==
    IF a.d = 0 /\ b.d = 0 THEN (IF a.n = b.n THEN a ELSE NaN)
    ELSE IF a.d = 0 THEN a
    ELSE IF b.d = 0 THEN b
    ELSE Rat(a.n * b.d + b.n * a.d, a.d * b.d)

\* a / k for an integer k >= 0 (numpy true division: x/0 is inf or nan).
RatDivInt(a, k) ==
    IF a.d = 0 THEN a ELSE Rat(a.n, a.d * k)

Index2(shape) == (0 .. shape[1] - 1) \X (0 .. shape[2] - 1)
Index3(shape, classes) ==
    (0 .. shape[1] - 1) \X (0 .. shape[2] - 1) \X (0 .. classes - 1)

\* np.zeros((rows, cols, classes))
Zeros(shape, classes) ==
    [shape |-> shape, v |-> [q \in Index3(shape, classes) |-> Zero]]

(***************************************************************************)
(* PSPNet.preprocess_image and PSPNet.predict.                             *)
(***************************************************************************)
\* DATA_MEAN in RGB order, in thousandths.
DATA_MEAN == <<123680, 116779, 103939>>

\* float16 holds every 8-bit value exactly; the centred value is a double.
\* Pixels are <<r, g, b>>; the result is in BGR order, in thousandths.
preprocess_image(img) ==
    [shape |-> img.shape,
     px |-> [p \in Index2(img.shape) |->
               <<1000 * img.px[p][3] - DATA_MEAN[3],
                 1000 * img.px[p][2] - DATA_MEAN[2],
                 1000 * img.px[p][1] - DATA_MEAN[1]>>]]

\* np.flip(input_data, axis=2): the column axis of the (1, H, W, 3) batch.
FlipInput(a) ==
    [shape |-> a.shape,
     px |-> [p \in Index2(a.shape) |-> a.px[<<p[1], a.shape[2] - 1 - p[2]>>]]]

\* np.fliplr on an (H, W, C) score map.
FlipLR(m) ==
    [shape |-> m.shape,
     v |-> [q \in DOMAIN m.v |-> m.v[<<q[1], m.shape[2] - 1 - q[2], q[3]>>]]]

\* The class a network reads off one preprocessed pixel: by the sign of the
\* centred red channel (the last component in BGR order).
ClassOf(bgr, classes) == (IF bgr[3] > 0 THEN 1 ELSE 0) % classes

\* self.model.predict(input_data)[0]: the opaque network.  Two stand-ins:
\* "pointwise" scores each pixel on its own; "shift" is a convolution with
\* a one-sided kernel, reading the pixel to the left (zero padding).
model_predict(n, input_data) ==
    LET src(q) == IF n.model = "shift" THEN <<q[1], q[2] - 1>>
                  ELSE <<q[1], q[2]>>
        at(q)  == IF src(q)[2] < 0 THEN <<0, 0, 0>> ELSE input_data.px[src(q)]
    IN  [shape |-> input_data.shape,
         v |-> [q \in Index3(input_data.shape, n.classes) |->
                  IF ClassOf(at(q), n.classes) = q[3] THEN One ELSE Zero]]

\* RatScale(a, num, den) is a * (num / den); nan and inf stay what they are
\* (0 * nan is nan).
RatScale(a, num, den) ==
    IF a.d = 0 THEN (IF num = 0 THEN NaN ELSE a)
    ELSE Rat(a.n * num, a.d * den)

\* The sum of f[i] over i in lo .. hi.
RECURSIVE SumOver(_, _, _)
SumOver(f, lo, hi) == IF lo > hi THEN 0 ELSE f[hi] + SumOver(f, lo, hi - 1)

\* PIL's bilinear resampling along one axis: output sample xx of n_out is
\* centred at (xx + 1/2) * n_in / n_out; input sample x weighs
\* max(0, 1 - |x + 1/2 - centre| / max(n_in / n_out, 1)).  TriangleWeight is
\* that weight times 2 * max(n_in, n_out).
TriangleWeight(x, xx, n_in, n_out) ==
    Max(0, 2 * Max(n_in, n_out)
           - Abs((2 * x + 1) * n_out - (2 * xx + 1) * n_in))

\* The weights are normalised to sum 1 and held as 22-bit fixed point numbers.
ResampleCoeffs(xx, n_in, n_out) ==
    LET u == [x \in 0 .. n_in - 1 |-> TriangleWeight(x, xx, n_in, n_out)]
        total == SumOver(u, 0, n_in - 1)
    IN  [x \in 0 .. n_in - 1 |->
            (2 * u[x] * (2 ^ 22) + total) \div (2 * total)]

\* One 8-bit output sample: the weighted sum, rounded and clipped to 0 .. 255.
ResampleSample(vals, xx, n_in, n_out) ==
    LET k == ResampleCoeffs(xx, n_in, n_out)
        acc == SumOver([x \in 0 .. n_in - 1 |-> vals[x] * k[x]], 0, n_in - 1)
    IN  Min(255, Max(0, (2 ^ 21 + acc) \div (2 ^ 22)))

\* The shape of the PIL image toimage makes of an (rows, cols, 3) array.
\* toimage takes the first axis of length 3 for the channel axis: the rows
\* when there are 3 of them (the picture then has the array's columns for
\* rows and its channels for columns), else the columns when there are 3.
ToImageShape(shape) ==
    IF shape[1] = 3 THEN <<shape[2], 3>> ELSE shape

\* toimage followed by fromimage, for an 8-bit array (no byte scaling):
\* with 3 rows the axes are transposed by (1, 2, 0), else with 3 columns by
\* (0, 2, 1), else the array is the picture.
toimage(img) ==
    [shape |-> ToImageShape(img.shape),
     px |-> [p \in Index2(ToImageShape(img.shape)) |->
               [c \in 1 .. 3 |->
                  IF img.shape[1] = 3 THEN img.px[<<c - 1, p[1]>>][p[2] + 1]
                  ELSE IF img.shape[2] = 3 THEN img.px[<<p[1], c - 1>>][p[2] + 1]
                  ELSE img.px[p][c]]]]

\* Image.resize((cols, rows), BILINEAR) of an 8-bit RGB picture: PIL
\* resamples the columns first and the rows second, rounding to 8 bits after
\* each pass.
Resample(im, size) ==
    LET h == im.shape[1]
        w == im.shape[2]
        horiz == [p \in Index2(<<h, size[2]>>) |->
                    [c \in 1 .. 3 |->
                       ResampleSample([x \in 0 .. w - 1 |-> im.px[<<p[1], x>>][c]],
                                      p[2], w, size[2])]]
    IN  [shape |-> size,
         px |-> [p \in Index2(size) |->
                   [c \in 1 .. 3 |->
                      ResampleSample([y \in 0 .. h - 1 |-> horiz[<<y, p[2]>>][c]],
                                     p[1], h, size[1])]]]

\* misc.imresize(img, size) with size = (rows, cols) and the default
\* interp='bilinear': toimage, Image.resize((cols, rows)), fromimage.
imresize(img, size) == Resample(toimage(img), size)

\* the size a fraction stands for: the picture's size times the fraction,
\* truncated; scale is in hundredths
ScaledShape(shape, scale) ==
    <<(shape[1] * scale) \div 100, (shape[2] * scale) \div 100>>

\* misc.imresize(full_image, size=scale, interp="bilinear") with a float:
\* the fraction is applied to the size of the picture toimage made.
imresizeByScale(img, scale) ==
    Resample(toimage(img), ScaledShape(ToImageShape(img.shape), scale))

\* ndimage.zoom maps output index i of n_out to the input coordinate
\* i * (n_in - 1) / (n_out - 1), and to i when n_out = 1 (the non-finite
\* factor is replaced by 1).  lo and hi are the two samples the order-1
\* spline reads (mirrored at the far edge), num / den the weight of hi.
ZoomCoord(i, n_in, n_out) ==
    LET den == IF n_out = 1 THEN 1 ELSE n_out - 1
        a   == IF n_out = 1 THEN 0 ELSE i * (n_in - 1)
        lo  == a \div den
    IN  [lo |-> lo,
         hi |-> IF lo + 1 <= n_in - 1 THEN lo + 1 ELSE Max(n_in - 2, 0),
         num |-> a % den, den |-> den]

\* linear interpolation between two scores; the spline sums both samples
\* even when one of them weighs 0
Lerp(a, b, num, den) ==
    RatAdd(RatScale(a, den - num, den), RatScale(b, num, den))

\* ndimage.zoom(prediction, (h_ori/h, w_ori/w, 1.), order=1, prefilter=False):
\* the output has h_ori rows and w_ori columns, each sample interpolated
\* linearly along the rows and along the columns.
zoom(m, h_ori, w_ori, classes) ==
    LET h == m.shape[1]
        w == m.shape[2]
    IN  [shape |-> <<h_ori, w_ori>>,
         v |-> [q \in Index3(<<h_ori, w_ori>>, classes) |->
                  LET r == ZoomCoord(q[1], h, h_ori)
                      c == ZoomCoord(q[2], w, w_ori)
                  IN  Lerp(Lerp(m.v[<<r.lo, c.lo, q[3]>>],
                                m.v[<<r.lo, c.hi, q[3]>>], c.num, c.den),
                           Lerp(m.v[<<r.hi, c.lo, q[3]>>],
                                m.v[<<r.hi, c.hi, q[3]>>], c.num, c.den),
                           r.num, r.den)]]

ScoreAdd(a, b) ==
    [shape |-> a.shape, v |-> [q \in DOMAIN a.v |-> RatAdd(a.v[q], b.v[q])]]
ScoreDiv(a, k) ==
    [shape |-> a.shape, v |-> [q \in DOMAIN a.v |-> RatDivInt(a.v[q], k)]]

PSPNet_predict(n, img, flip) ==
    LET resized    == IF img.shape # n.input_shape
                      THEN imresize(img, n.input_shape) ELSE img
        input_data == preprocess_image(resized)
        regular_prediction == model_predict(n, input_data)
        flipped_prediction == FlipLR(model_predict(n, FlipInput(input_data)))
        combined   == IF flip
                      THEN ScoreDiv(ScoreAdd(regular_prediction,
                                             flipped_prediction), 2)
                      ELSE regular_prediction
    IN  \* img.shape[0:1] != self.input_shape compares a 1-tuple with a
        \* 2-tuple, so the zoom always runs
        zoom(combined, img.shape[1], img.shape[2], n.classes)

(***************************************************************************)
(* pad_image and the tile geometry of predict_sliding.                     *)
(***************************************************************************)
IsPow2(k) == \E e \in 0 .. 30 : k = 2 ^ e

\* ceil(tile_size[0] * (1 - overlap)) with overlap = 1/3 in doubles.
\* 1 - 1/3 rounds to (2/3)(1 + 2^-53).  For t not divisible by 3 the product
\* is far from an integer and the ceiling is that of 2t/3.  For t = 3m the
\* exact product 2m(1 + 2^-53) lies half an ulp or more above 2m: it rounds
\* back to 2m only on a tie, i.e. when 2m is a power of two, and otherwise to
\* the next double above 2m, whose ceiling is 2m + 1.
SlidingStride(tile_size) ==
    LET t == tile_size[1]
    IN  IF t % 3 = 0 /\ ~IsPow2((2 * t) \div 3)
        THEN (2 * t) \div 3 + 1
        ELSE CeilDiv(2 * t, 3)

\* the tile count without the lower limit of one tile
TileCountUnlimited(image_dim, tile_dim, s) ==
    CeilDiv(image_dim - tile_dim, s) + 1

\* max(int(ceil((image_dim - tile_dim) / stride) + 1), 1)
TileCount(image_dim, tile_dim, s) ==
    Max(CeilDiv(image_dim - tile_dim, s) + 1, 1)

\* the rectangle without lines 278-279: a clipped tile is not shifted back
TileRectUnshifted(r, c, s, tile_size, shape) ==
    [x1 |-> c * s, y1 |-> r * s,
     x2 |-> Min(c * s + tile_size[2], shape[2]),
     y2 |-> Min(r * s + tile_size[1], shape[1])]

\* lines 274-279: nominal corner, clipped far corner, corner shifted back
TileRect(r, c, s, tile_size, shape) ==
    LET x1n == c * s
        y1n == r * s
        x2  == Min(x1n + tile_size[2], shape[2])
        y2  == Min(y1n + tile_size[1], shape[1])
    IN  [x1 |-> Max(x2 - tile_size[2], 0), y1 |-> Max(y2 - tile_size[1], 0),
         x2 |-> x2, y2 |-> y2]

\* full_image[y1:y2, x1:x2]
Slice(img, t) ==
    LET shape == <<Max(Min(t.y2, img.shape[1]) - t.y1, 0),
                   Max(Min(t.x2, img.shape[2]) - t.x1, 0)>>
    IN  [shape |-> shape,
         px |-> [p \in Index2(shape) |-> img.px[<<t.y1 + p[1], t.x1 + p[2]>>]]]

RowsMissing(img, target_size) == target_size[1] - img.shape[1]
ColsMissing(img, target_size) == target_size[2] - img.shape[2]

\* np.pad(img, ((0, rows_missing), (0, cols_missing), (0, 0)), 'constant')
pad_image(img, target_size) ==
    LET shape == <<img.shape[1] + RowsMissing(img, target_size),
                   img.shape[2] + ColsMissing(img, target_size)>>
    IN  [shape |-> shape,
         px |-> [p \in Index2(shape) |->
                   IF p[1] < img.shape[1] /\ p[2] < img.shape[2]
                   THEN img.px[p] ELSE <<0, 0, 0>>]]

InRect(q, t) == t.y1 <= q[1] /\ q[1] < t.y2 /\ t.x1 <= q[2] /\ q[2] < t.x2

\* count_predictions[y1:y2, x1:x2] += 1
CountTile(counts, t) ==
    [q \in DOMAIN counts |-> IF InRect(q, t) THEN counts[q] + 1 ELSE counts[q]]

\* full_probs[y1:y2, x1:x2] += padded_prediction[0:h, 0:w, :]
AccumulateTile(probs, t, padded_prediction) ==
    [shape |-> probs.shape,
     v |-> [q \in DOMAIN probs.v |->
              IF InRect(q, t)
              THEN RatAdd(probs.v[q],
                          padded_prediction.v[<<q[1] - t.y1, q[2] - t.x1, q[3]>>])
              ELSE probs.v[q]]]

\* full_probs /= count_predictions
Normalize(probs, counts) ==
    [shape |-> probs.shape,
     v |-> [q \in DOMAIN probs.v |-> RatDivInt(probs.v[q], counts[q])]]

(***************************************************************************)
(* Inputs.                                                                 *)
(***************************************************************************)
PixelValues == {<<0, 0, 0>>, <<255, 0, 0>>}
NetModels   == {"pointwise", "shift"}

\* EVALUATION_SCALES = [1.0], in hundredths
ScaleOne == 100

Images(shape) ==
    {[shape |-> shape, px |-> f] : f \in [Index2(shape) -> PixelValues]}

\* a checkerboard image of the given shape
Checker(shape, k) ==
    [shape |-> shape,
     px |-> [p \in Index2(shape) |->
               IF (p[1] + p[2] + k) % 2 = 0 THEN <<255, 0, 0>> ELSE <<0, 0, 0>>]]

Nets(shapes) ==
    {[input_shape |-> s, classes |-> NumClasses, model |-> m] :
        s \in shapes, m \in NetModels}

SlidingShapes == (1 .. MaxH) \X (1 .. MaxW)
TileShapes    == TileHeights \X TileWidths
DirectShapes  == {<<1, 2>>, <<2, 2>>}
\* images handed to predict directly: some have the network's shape, the
\* others are resized to it
ResizableShapes == ((1 .. 3) \X (1 .. 3)) \cup {<<1, 4>>, <<2, 4>>}
SmallShapes   == (1 .. 3) \X (1 .. 3)

\* an image with one red column
OneColumn(shape, k) ==
    [shape |-> shape,
     px |-> [p \in Index2(shape) |->
               IF p[2] = k THEN <<255, 0, 0>> ELSE <<0, 0, 0>>]]

\* an image of one colour
Uniform(shape, colour) ==
    [shape |-> shape, px |-> [p \in Index2(shape) |-> colour]]

\* the images of a shape: all of them up to 4 pixels, a selection above
DirectImages(shape) ==
    IF shape[1] * shape[2] <= 4 THEN Images(shape)
    ELSE {Checker(shape, k) : k \in 0 .. 1}
         \cup {OneColumn(shape, k) : k \in 0 .. shape[2] - 1}
         \cup {Uniform(shape, c) : c \in PixelValues}

SlidingIdle ==
    /\ full_image = None /\ stride = 0 /\ tile_rows = 0 /\ tile_cols = 0
    /\ row = 0 /\ col = 0 /\ tile = None /\ pad = None /\ tile_counter = 0
    /\ full_probs = None /\ count_predictions = None
MsIdle ==
    /\ ms_image = None /\ scales = <<>> /\ scale_idx = 0
    /\ sliding_evaluation = FALSE /\ scaled_img = None
    /\ scaled_probs = None
    /\ ms_full_probs = None
DirectIdle == predict_img = None /\ prediction = None /\ mirrored = None
HeatIdle ==
    /\ class_name = None /\ hm_shown = FALSE /\ hm_reported = FALSE
    /\ num_classes = 0 /\ curr_index = None /\ last_key = None
    /\ key_events = 0 /\ redraws = 0
NpyIdle ==
    /\ layers = <<>> /\ layer_idx = 0 /\ weight = Unbound /\ weights_set = 0
    /\ warnings = 0 /\ files_written = {}
MainIdle ==
    /\ args = None /\ keras_found = FALSE /\ image_shape = <<0, 0>>
    /\ pspnet = NoNet /\ report = None
    /\ predictor_calls = 0 /\ view = None /\ outputs = {}

InitSliding ==
    /\ op = "predict_sliding" /\ pc = "sliding_start"
    /\ net \in Nets(TileShapes)
    /\ flip_evaluation \in BOOLEAN
    /\ \E s \in SlidingShapes : full_image = Checker(s, 0)
    /\ stride = 0 /\ tile_rows = 0 /\ tile_cols = 0
    /\ row = 0 /\ col = 0 /\ tile = None /\ pad = None /\ tile_counter = 0
    /\ full_probs = None /\ count_predictions = None
    /\ raised = None
    /\ MsIdle /\ DirectIdle /\ HeatIdle /\ NpyIdle /\ MainIdle

InitMultiScale ==
    /\ op = "predict_multi_scale" /\ pc = "ms_start"
    /\ net \in Nets(DirectShapes)
    /\ flip_evaluation \in BOOLEAN
    /\ sliding_evaluation \in BOOLEAN
    /\ IF sliding_evaluation
       THEN \E s \in SmallShapes, k \in 0 .. 1 : ms_image = Checker(s, k)
       ELSE \E s \in ResizableShapes : ms_image \in DirectImages(s)
    /\ \E n \in 1 .. MaxScales : scales = [i \in 1 .. n |-> ScaleOne]
    /\ scale_idx = 0 /\ scaled_img = None /\ scaled_probs = None
    /\ ms_full_probs = None
    /\ raised = None
    /\ SlidingIdle /\ DirectIdle /\ HeatIdle /\ NpyIdle /\ MainIdle

InitDirect ==
    /\ op = "predict" /\ pc = "predict_call"
    /\ net \in Nets(DirectShapes)
    /\ flip_evaluation \in BOOLEAN
    /\ \E s \in ResizableShapes : predict_img \in DirectImages(s)
    /\ prediction = None /\ mirrored = None
    /\ raised = None
    /\ SlidingIdle /\ MsIdle /\ HeatIdle /\ NpyIdle /\ MainIdle

(***************************************************************************)
(* predict_sliding.                                                        *)
(***************************************************************************)
\* lines 261-271: everything before the tile loop
SlidingStart ==
    /\ pc = "sliding_start"
    /\ LET s    == SlidingStride(net.input_shape)
           rows == TileCount(full_image.shape[1], net.input_shape[1], s)
           cols == TileCount(full_image.shape[2], net.input_shape[2], s)
       IN  /\ stride' = s
           /\ tile_rows' = rows
           /\ tile_cols' = cols
           /\ pc' = IF rows > 0 /\ cols > 0 THEN "sliding_loop"
                    ELSE "sliding_normalize"
    /\ full_probs' = Zeros(full_image.shape, net.classes)
    /\ count_predictions' =
          [q \in Index3(full_image.shape, net.classes) |-> 0]
    /\ tile_counter' = 0
    /\ row' = 0 /\ col' = 0
    /\ UNCHANGED <<op, net, flip_evaluation, full_image, tile, pad, raised>>
    /\ UNCHANGED <<msVars, directVars, heatVars, npyVars, mainVars>>

\* lines 274-290: one iteration of the tile loop
SlidingTile ==
    /\ pc = "sliding_loop"
    /\ LET t      == TileRect(row, col, stride, net.input_shape,
                              full_image.shape)
           sub    == Slice(full_image, t)
           padded == pad_image(sub, net.input_shape)
           padded_prediction == PSPNet_predict(net, padded, flip_evaluation)
       IN  /\ tile' = [x1 |-> t.x1, y1 |-> t.y1, x2 |-> t.x2, y2 |-> t.y2,
                       row |-> row, col |-> col]
           /\ pad' = [rows_missing |-> RowsMissing(sub, net.input_shape),
                      cols_missing |-> ColsMissing(sub, net.input_shape)]
           /\ count_predictions' = CountTile(count_predictions, t)
           /\ full_probs' = AccumulateTile(full_probs, t, padded_prediction)
    /\ tile_counter' = tile_counter + 1
    /\ IF col + 1 < tile_cols
       THEN /\ col' = col + 1 /\ row' = row /\ pc' = "sliding_loop"
       ELSE /\ col' = 0 /\ row' = row + 1
            /\ pc' = IF row + 1 < tile_rows THEN "sliding_loop"
                     ELSE "sliding_normalize"
    /\ UNCHANGED <<op, net, flip_evaluation, full_image, stride, tile_rows,
                   tile_cols, raised>>
    /\ UNCHANGED <<msVars, directVars, heatVars, npyVars, mainVars>>

\* lines 293-297: the normalisation and the return to the caller
SlidingNormalize ==
    /\ pc = "sliding_normalize"
    /\ full_probs' = Normalize(full_probs, count_predictions)
    /\ IF op = "predict_multi_scale"
       THEN /\ scaled_probs' = full_probs' /\ pc' = "ms_accumulate"
       ELSE /\ scaled_probs' = scaled_probs /\ pc' = "sliding_done"
    /\ UNCHANGED <<op, net, flip_evaluation, full_image, stride, tile_rows,
                   tile_cols, row, col, tile, pad, tile_counter,
                   count_predictions, raised>>
    /\ UNCHANGED <<ms_image, scales, scale_idx, sliding_evaluation,
                   scaled_img, ms_full_probs>>
    /\ UNCHANGED <<directVars, heatVars, npyVars, mainVars>>

(***************************************************************************)
(* predict_multi_scale.                                                    *)
(***************************************************************************)
\* line 319: full_probs /= len(scales)
ScaleMean(sum, n) == ScoreDiv(sum, n)

\* lines 302-304
MsStart ==
    /\ pc = "ms_start"
    /\ ms_full_probs' = Zeros(ms_image.shape, net.classes)
    /\ scale_idx' = 1
    /\ pc' = IF Len(scales) > 0 THEN "ms_scale" ELSE "ms_normalize"
    /\ UNCHANGED <<op, net, flip_evaluation, ms_image, scales,
                   sliding_evaluation, scaled_img, scaled_probs, raised>>
    /\ UNCHANGED <<slidingVars, directVars, heatVars, npyVars, mainVars>>

\* line 307: the image at the scale
MsScale ==
    /\ pc = "ms_scale"
    /\ scaled_img' = imresizeByScale(ms_image, scales[scale_idx])
    /\ pc' = "ms_predict"
    /\ UNCHANGED <<op, net, flip_evaluation, ms_image, scales, scale_idx,
                   sliding_evaluation, scaled_probs, ms_full_probs, raised>>
    /\ UNCHANGED <<slidingVars, directVars, heatVars, npyVars, mainVars>>

\* lines 308-309: the scaled image is handed to predict_sliding
MsScaleSliding ==
    /\ pc = "ms_predict" /\ sliding_evaluation
    /\ full_image' = scaled_img
    /\ pc' = "sliding_start"
    /\ UNCHANGED <<op, net, flip_evaluation, stride, tile_rows, tile_cols,
                   row, col, tile, pad, tile_counter, full_probs,
                   count_predictions, raised>>
    /\ UNCHANGED <<msVars, directVars, heatVars, npyVars, mainVars>>

\* lines 310-311: one direct prediction of the scaled image
MsScaleDirect ==
    /\ pc = "ms_predict" /\ ~sliding_evaluation
    /\ scaled_probs' = PSPNet_predict(net, scaled_img, flip_evaluation)
    /\ pc' = "ms_accumulate"
    /\ UNCHANGED <<op, net, flip_evaluation, ms_image, scales, scale_idx,
                   sliding_evaluation, scaled_img, ms_full_probs, raised>>
    /\ UNCHANGED <<slidingVars, directVars, heatVars, npyVars, mainVars>>

\* lines 313-318: resample to the original size and accumulate
MsAccumulate ==
    /\ pc = "ms_accumulate"
    /\ ms_full_probs' =
          ScoreAdd(ms_full_probs,
                   zoom(scaled_probs, ms_image.shape[1], ms_image.shape[2],
                        net.classes))
    /\ scale_idx' = scale_idx + 1
    /\ pc' = IF scale_idx < Len(scales) THEN "ms_scale" ELSE "ms_normalize"
    /\ UNCHANGED <<op, net, flip_evaluation, ms_image, scales,
                   sliding_evaluation, scaled_img, scaled_probs, raised>>
    /\ UNCHANGED <<slidingVars, directVars, heatVars, npyVars, mainVars>>

\* lines 319-320
MsNormalize ==
    /\ pc = "ms_normalize"
    /\ ms_full_probs' = ScaleMean(ms_full_probs, Len(scales))
    /\ pc' = "ms_done"
    /\ UNCHANGED <<op, net, flip_evaluation, ms_image, scales, scale_idx,
                   sliding_evaluation, scaled_img, scaled_probs, raised>>
    /\ UNCHANGED <<slidingVars, directVars, heatVars, npyVars, mainVars>>

(***************************************************************************)
(* PSPNet.predict called directly, on an image and on its mirror image.    *)
(***************************************************************************)
\* np.fliplr on an (H, W, 3) image
FlipImage(a) == FlipInput(a)

Predict ==
    /\ pc = "predict_call"
    /\ prediction' = PSPNet_predict(net, predict_img, flip_evaluation)
    /\ pc' = "predict_mirror"
    /\ UNCHANGED <<op, net, flip_evaluation, predict_img, mirrored, raised>>
    /\ UNCHANGED <<slidingVars, msVars, heatVars, npyVars, mainVars>>

PredictMirrored ==
    /\ pc = "predict_mirror"
    /\ mirrored' = FlipLR(PSPNet_predict(net, FlipImage(predict_img), flip_evaluation))
    /\ pc' = "predict_done"
    /\ UNCHANGED <<op, net, flip_evaluation, predict_img, prediction, raised>>
    /\ UNCHANGED <<slidingVars, msVars, heatVars, npyVars, mainVars>>

(***************************************************************************)
(* show_class_heatmap and show_class_heatmaps.                             *)
(***************************************************************************)
\* name2label of the imported label module: class name -> class id
name2label == [wall |-> 0, person |-> 1]

HeatmapNames == {"wall", "person", "unicorn"}

\* "fmt" % args succeeds when the format has one specifier per argument
FormatArgsMatch(specifiers, arguments) == specifiers = arguments

InitHeatmap ==
    /\ op = "show_class_heatmap" /\ pc = "heatmap_call"
    /\ class_name \in HeatmapNames
    /\ num_classes \in 2 .. MaxClasses
    /\ hm_shown = FALSE /\ hm_reported = FALSE
    /\ curr_index = None /\ last_key = None /\ key_events = 0 /\ redraws = 0
    /\ net = None /\ flip_evaluation = FALSE /\ raised = None
    /\ SlidingIdle /\ MsIdle /\ DirectIdle /\ NpyIdle /\ MainIdle

\* lines 210-217
ShowClassHeatmap ==
    /\ pc = "heatmap_call"
    /\ IF class_name \in DOMAIN name2label
       THEN /\ hm_shown' = TRUE
            /\ hm_reported' = FALSE
            /\ raised' = None
            /\ pc' = "heatmap_returned"
       ELSE \* KeyError is caught; the handler formats one %s with the
            \* 2-tuple (class_name, err) and prints the result
            IF FormatArgsMatch(1, 2)
            THEN /\ hm_reported' = TRUE
                 /\ raised' = None
                 /\ hm_shown' = FALSE
                 /\ pc' = "heatmap_returned"
            ELSE /\ hm_reported' = FALSE
                 /\ raised' = "TypeError"
                 /\ hm_shown' = FALSE
                 /\ pc' = "heatmap_raised"
    /\ UNCHANGED <<op, net, flip_evaluation, class_name, num_classes,
                   curr_index, last_key, key_events, redraws>>
    /\ UNCHANGED <<slidingVars, msVars, directVars, npyVars, mainVars>>

Keys == {"right", "left", "up"}

InitHeatmaps ==
    /\ op = "show_class_heatmaps" /\ pc = "heatmaps_call"
    /\ num_classes \in 1 .. MaxClasses
    /\ curr_index = None        \* the function attribute does not exist yet
    /\ class_name = None /\ hm_shown = FALSE /\ hm_reported = FALSE
    /\ last_key = None /\ key_events = 0 /\ redraws = 0
    /\ net = None /\ flip_evaluation = FALSE /\ raised = None
    /\ SlidingIdle /\ MsIdle /\ DirectIdle /\ NpyIdle /\ MainIdle

\* lines 226, 245-252: the call up to plt.show(), which blocks.  Line 247
\* reads id2label, a global bound by __main__'s import of a label module.
HeatmapsCall ==
    /\ pc = "heatmaps_call"
    /\ curr_index' = 0
    /\ last_key' = None
    /\ IF op = "main" /\ ~pspnet.labels
       THEN raised' = "NameError" /\ pc' = "main_raised"
       ELSE raised' = raised /\ pc' = "heatmaps_open"
    /\ UNCHANGED <<op, net, flip_evaluation, class_name, hm_shown,
                   hm_reported, num_classes, key_events, redraws>>
    /\ UNCHANGED <<slidingVars, msVars, directVars, npyVars, mainVars>>

\* key_event without line 236: the index is not wrapped
KeyIndexUnwrapped(index, key, classes) ==
    IF key = "right" THEN index + 1
    ELSE IF key = "left" THEN index - 1
    ELSE index

\* the index key_event leaves behind (lines 230-236)
KeyIndex(index, key, classes) ==
    IF key = "right" THEN (index + 1) % classes
    ELSE IF key = "left" THEN (index - 1) % classes
    ELSE index

\* lines 228-243: key_event, while the window is open
KeyEvent ==
    /\ pc = "heatmaps_open"
    /\ key_events < MaxEvents
    /\ \E key \in Keys :
          /\ last_key' = key
          /\ curr_index' = KeyIndex(curr_index, key, num_classes)
          /\ redraws' = IF key \in {"right", "left"} THEN redraws + 1
                        ELSE redraws
    /\ key_events' = key_events + 1
    /\ UNCHANGED <<op, pc, net, flip_evaluation, raised, class_name,
                   hm_shown, hm_reported, num_classes>>
    /\ UNCHANGED <<slidingVars, msVars, directVars, npyVars, mainVars>>

\* the window is closed: plt.show() and the function return, to __main__
\* (line 392 is next) or to a caller that may call the function again
HeatmapsClose ==
    /\ pc = "heatmaps_open"
    /\ pc' = IF op = "main" THEN "main_visualize" ELSE "heatmaps_call"
    /\ UNCHANGED <<op, net, flip_evaluation, raised>>
    /\ UNCHANGED <<heatVars, slidingVars, msVars, directVars, npyVars,
                   mainVars>>

(***************************************************************************)
(* PSPNet.set_npy_weights.                                                 *)
(***************************************************************************)
\* lines 364-381: the network constructed, by the name given as
\* <<architecture, dataset>>, and whether a label module was imported
SelectNet(model) ==
    IF model[1] = "pspnet50"
    THEN [cls |-> "PSPNet50", nb_classes |-> 150, input_shape |-> <<473, 473>>,
          labels |-> model[2] = "ade20k"]
    ELSE IF model[1] = "pspnet101" /\ model[2] = "cityscapes"
    THEN [cls |-> "PSPNet101", nb_classes |-> 19, input_shape |-> <<713, 713>>,
          labels |-> TRUE]
    ELSE IF model[1] = "pspnet101" /\ model[2] = "voc2012"
    THEN [cls |-> "PSPNet101", nb_classes |-> 21, input_shape |-> <<473, 473>>,
          labels |-> TRUE]
    ELSE NoNet

Absent == {"absent"}

\* A layer: its name as <<4-character prefix, middle, suffix>>, its class,
\* whether it carries a bias, the shape of its kernel, and the keys of
\* weights[layer.name] in the npy dump (Absent when the dump has no entry of
\* that name).  A 'weights' array of the dump has the shape of the kernel of
\* the layer it is filed under.
BnKeys == {"mean", "variance", "scale", "offset"}
LayerPool ==
    { [name |-> <<"conv", "1_1_3x3_s2_", "bn">>, cls |-> "BatchNormalization",
       use_bias |-> FALSE, kshape |-> "none", entry |-> BnKeys],
      [name |-> <<"conv", "1_2_3x3_", "bn">>, cls |-> "BatchNormalization",
       use_bias |-> FALSE, kshape |-> "none", entry |-> Absent],
      [name |-> <<"conv", "1_1_3x3_", "s2">>, cls |-> "Conv2D",
       use_bias |-> FALSE, kshape |-> "3x3x3x64", entry |-> {"weights"}],
      [name |-> <<"conv", "", "6">>, cls |-> "Conv2D",
       use_bias |-> TRUE, kshape |-> "1x1x512x150",
       entry |-> {"weights", "biases"}],
      [name |-> <<"conv", "6_", "aux">>, cls |-> "Conv2D",
       use_bias |-> TRUE, kshape |-> "1x1x512x150", entry |-> {"biases"}],
      [name |-> <<"conv", "5_4_", "k1">>, cls |-> "Conv2D",
       use_bias |-> FALSE, kshape |-> "3x3x4096x512", entry |-> Absent],
      [name |-> <<"conv", "1_1_3x3_s2_", "relu">>, cls |-> "Activation",
       use_bias |-> FALSE, kshape |-> "none", entry |-> Absent],
      [name |-> <<"drop", "out_", "1">>, cls |-> "Dropout",
       use_bias |-> FALSE, kshape |-> "none", entry |-> Absent],
      [name |-> <<"inte", "rp_", "1">>, cls |-> "Interp",
       use_bias |-> FALSE, kshape |-> "none", entry |-> Absent] }

whitelist == {"InputLayer", "Activation", "ZeroPadding2D", "Add",
              "MaxPooling2D", "AveragePooling2D", "Lambda", "Concatenate",
              "Dropout"}

HasKeys(layer, keys) == layer.entry # Absent /\ keys \subseteq layer.entry

\* layer.name[:4] == 'conv' and not layer.name[-4:] == 'relu', for a name
\* that does not end in 'bn' (lines 108, 117)
IsConvBranch(layer) ==
    layer.name[1] = "conv" /\ layer.name[3] \notin {"bn", "relu"}

\* The value of the local `weight` after line 119 ran for this layer: the
\* layer's own array when the lookup succeeded, else what an earlier pass
\* of the loop left in it.
WeightAfterTry(layer, w) ==
    IF IsConvBranch(layer) /\ HasKeys(layer, {"weights"})
    THEN [bound |-> TRUE, of |-> layer.name, kshape |-> layer.kshape]
    ELSE w

\* What one pass of the loop body (lines 107-130) does with a layer, w being
\* the value of `weight` before it: "set" (weights set), "pass", "warn", or
\* the exception that escapes.  set_weights raises ValueError when the list
\* has not one array per weight of the layer or an array has not the shape
\* of the weight.
LayerOutcome(layer, w) ==
    IF layer.name[1] = "conv" /\ layer.name[3] = "bn"
    THEN IF HasKeys(layer, BnKeys) THEN "set" ELSE "KeyError"
    ELSE IF IsConvBranch(layer)
    THEN IF HasKeys(layer, {"weights"}) /\ ~layer.use_bias
         THEN "set"
         ELSE \* the lookup or set_weights([weight]) raised: the handler
              \* reads weights[layer.name]['biases'], then `weight`
              IF ~HasKeys(layer, {"biases"}) THEN "KeyError"
              ELSE IF ~WeightAfterTry(layer, w).bound
              THEN "UnboundLocalError"
              ELSE IF layer.use_bias
                      /\ WeightAfterTry(layer, w).kshape = layer.kshape
              THEN "set" ELSE "ValueError"
    ELSE IF layer.cls \in whitelist THEN "pass"
    ELSE "warn"

InitNpy ==
    /\ op = "set_npy_weights" /\ pc = "npy_start"
    /\ \E n \in 1 .. MaxLayers : layers \in [1 .. n -> LayerPool]
    /\ layer_idx = 0 /\ weight = Unbound /\ weights_set = 0 /\ warnings = 0
    /\ files_written = {}
    /\ net = None /\ flip_evaluation = FALSE /\ raised = None
    /\ SlidingIdle /\ MsIdle /\ DirectIdle /\ HeatIdle /\ MainIdle

\* lines 96-105
NpyStart ==
    /\ pc = "npy_start"
    /\ weights_set' = 0
    /\ layer_idx' = 1
    /\ pc' = IF Len(layers) > 0 THEN "npy_loop" ELSE "npy_write"
    /\ UNCHANGED <<op, net, flip_evaluation, raised, layers, weight,
                   warnings, files_written>>
    /\ UNCHANGED <<slidingVars, msVars, directVars, heatVars, mainVars>>

\* lines 106-130: one layer
NpyLayer ==
    /\ pc = "npy_loop"
    /\ LET layer   == layers[layer_idx]
           outcome == LayerOutcome(layer, weight)
       IN  /\ weight' = WeightAfterTry(layer, weight)
           /\ weights_set' = IF outcome = "set" THEN weights_set + 1
                             ELSE weights_set
           /\ warnings' = IF outcome = "warn" THEN warnings + 1 ELSE warnings
           /\ IF outcome \in {"set", "pass", "warn"}
              THEN /\ raised' = None
                   /\ layer_idx' = layer_idx + 1
                   /\ pc' = IF layer_idx < Len(layers) THEN "npy_loop"
                            ELSE "npy_write"
              ELSE /\ raised' = outcome
                   /\ layer_idx' = layer_idx
                   /\ pc' = "npy_raised"
    /\ UNCHANGED <<op, net, flip_evaluation, layers, files_written>>
    /\ UNCHANGED <<slidingVars, msVars, directVars, heatVars, mainVars>>

\* lines 132-141, and the return.  Called by the constructor from __main__,
\* the constructor returns too: the network is bound to pspnet and the label
\* module is imported (lines 364-378).
NpyWrite ==
    /\ pc = "npy_write"
    /\ files_written' = {"json", "h5"}
    /\ IF op = "main"
       THEN pspnet' = SelectNet(args.model) /\ pc' = "main_predict"
       ELSE pspnet' = pspnet /\ pc' = "npy_done"
    /\ UNCHANGED <<op, net, flip_evaluation, raised, layers, layer_idx,
                   weight, weights_set, warnings>>
    /\ UNCHANGED <<args, keras_found, image_shape, report, predictor_calls,
                   view, outputs>>
    /\ UNCHANGED <<slidingVars, msVars, directVars, heatVars>>

(***************************************************************************)
(* __main__.                                                               *)
(***************************************************************************)
\* a model name as <<architecture, dataset>>
ModelChoices == {<<"pspnet50", "ade20k">>, <<"pspnet101", "cityscapes">>,
                 <<"pspnet101", "voc2012">>}
ModelNames   == ModelChoices \cup {<<"resnet50", "ade20k">>,
                                   <<"pspnet101", "ade20k">>}

\* a parser without the choices list
ParseAcceptsAny(model) == TRUE

\* argparse, choices=[...]: parse_args accepts the name or exits
ParseAccepts(model) == model \in ModelChoices

\* the images read by misc.imread, by their shape
MainImageShapes == {<<500, 700>>, <<1024, 2048>>}

\* the layers build_pspnet gives the network, when the weights are imported:
\* here one batch normalisation layer, in the dump or not
MainLayerLists ==
    {<<l>> : l \in {x \in LayerPool : x.cls = "BatchNormalization"}}

InitMain ==
    /\ op = "main" /\ pc = "main_parse"
    /\ args \in [model : ModelNames, sliding : BOOLEAN, flip : BOOLEAN,
                 multi_scale : BOOLEAN, heat_maps : BOOLEAN]
    /\ keras_found \in BOOLEAN
    /\ image_shape \in MainImageShapes
    /\ IF keras_found THEN layers = <<>> ELSE layers \in MainLayerLists
    /\ layer_idx = 0 /\ weight = Unbound /\ weights_set = 0 /\ warnings = 0
    /\ files_written = {}
    /\ pspnet = NoNet /\ report = None /\ predictor_calls = 0
    /\ view = None /\ outputs = {}
    /\ net = None /\ flip_evaluation = FALSE /\ raised = None
    /\ SlidingIdle /\ MsIdle /\ DirectIdle /\ HeatIdle

\* lines 334-353
MainParse ==
    /\ pc = "main_parse"
    /\ IF ParseAccepts(args.model)
       THEN /\ report' = None /\ pc' = "main_build"
       ELSE /\ report' = "invalid choice" /\ pc' = "main_exit"
    /\ UNCHANGED <<op, net, flip_evaluation, raised, args, keras_found,
                   image_shape, pspnet, predictor_calls, view, outputs>>
    /\ UNCHANGED <<slidingVars, msVars, directVars, heatVars, npyVars>>

\* lines 355-381 with PSPNet.__init__ (lines 37-56): with the keras files on
\* disk the constructor loads them and returns; without them it builds the
\* network and calls set_npy_weights, and pspnet is bound when that returns
MainBuild ==
    /\ pc = "main_build"
    /\ report' = IF args.model[1] \notin {"pspnet50", "pspnet101"}
                 THEN "Network architecture not implemented." ELSE report
    /\ IF SelectNet(args.model) = NoNet
       THEN pspnet' = NoNet /\ pc' = "main_predict"
       ELSE IF keras_found
       THEN pspnet' = SelectNet(args.model) /\ pc' = "main_predict"
       ELSE pspnet' = pspnet /\ pc' = "npy_start"
    /\ UNCHANGED <<op, net, flip_evaluation, raised, args, keras_found,
                   image_shape, predictor_calls, view, outputs>>
    /\ UNCHANGED <<slidingVars, msVars, directVars, heatVars, npyVars>>

\* lines 383-385: EVALUATION_SCALES, in hundredths
MainScales(multi_scale) ==
    IF multi_scale THEN <<15, 25, 50>> ELSE <<ScaleOne>>

\* PSPNet.predict runs the network once, and once more on the flipped input
\* with flip_evaluation (lines 72-75)
CallsPerPredict(flip) == IF flip THEN 2 ELSE 1

\* the network runs of one scale: one prediction per tile with sliding
\* evaluation, one prediction without
CallsPerScale(shape, n, sliding, flip) ==
    IF sliding
    THEN TileCount(shape[1], n.input_shape[1], SlidingStride(n.input_shape))
         * TileCount(shape[2], n.input_shape[2], SlidingStride(n.input_shape))
         * CallsPerPredict(flip)
    ELSE CallsPerPredict(flip)

\* the network runs of predict_multi_scale over the scales scs[1 .. k]
RECURSIVE NetworkCalls(_, _, _, _, _, _)
NetworkCalls(scs, k, shape, n, sliding, flip) ==
    IF k = 0 THEN 0
    ELSE NetworkCalls(scs, k - 1, shape, n, sliding, flip)
         + CallsPerScale(ScaledShape(ToImageShape(shape), scs[k]), n,
                         sliding, flip)

\* lines 383-390: predict_multi_scale(img, pspnet, ...), then the heat map
\* viewer when asked for
MainPredict ==
    /\ pc = "main_predict"
    /\ IF pspnet = NoNet
       THEN /\ raised' = "NameError" /\ pc' = "main_raised"
            /\ predictor_calls' = predictor_calls
            /\ num_classes' = num_classes
       ELSE /\ raised' = None
            /\ predictor_calls' =
                  predictor_calls
                  + NetworkCalls(MainScales(args.multi_scale),
                                 Len(MainScales(args.multi_scale)),
                                 image_shape, pspnet, args.sliding, args.flip)
            \* class_scores.shape[2]
            /\ num_classes' = pspnet.nb_classes
            /\ pc' = IF args.heat_maps THEN "heatmaps_call"
                     ELSE "main_visualize"
    /\ UNCHANGED <<op, net, flip_evaluation, args, keras_found, image_shape,
                   pspnet, report, view, outputs>>
    /\ UNCHANGED <<class_name, hm_shown, hm_reported, curr_index, last_key,
                   key_events, redraws>>
    /\ UNCHANGED <<slidingVars, msVars, directVars, npyVars>>

\* the labels of the radio buttons (line 196)
ViewStyles == {"original", "overlay", "predictions"}

\* produce_view, by the picture it returns: the input image, the class image
\* in label colours, the blend of the two, or None
produce_view(viewstyle) ==
    IF viewstyle = "original" THEN "input_image"
    ELSE IF viewstyle = "predictions" THEN "color_class_image"
    ELSE IF viewstyle = "overlay" THEN "blend"
    ELSE None

\* lines 184-205: visualize_prediction up to plt.show(), which blocks;
\* line 201 draws the 'original' view
VisualizePrediction ==
    /\ pc = "main_visualize"
    /\ view' = produce_view("original")
    /\ pc' = "visualize_open"
    /\ UNCHANGED <<op, net, flip_evaluation, raised, args, keras_found,
                   image_shape, pspnet, report, predictor_calls, outputs>>
    /\ UNCHANGED <<slidingVars, msVars, directVars, heatVars, npyVars>>

\* lines 190-192: button_handler, on a click on a radio button
ButtonHandler ==
    /\ pc = "visualize_open"
    /\ \E viewstyle \in ViewStyles : view' = produce_view(viewstyle)
    /\ UNCHANGED <<op, pc, net, flip_evaluation, raised, args, keras_found,
                   image_shape, pspnet, report, predictor_calls, outputs>>
    /\ UNCHANGED <<slidingVars, msVars, directVars, heatVars, npyVars>>

\* the window is closed: plt.show() and visualize_prediction return
VisualizeClose ==
    /\ pc = "visualize_open"
    /\ pc' = "main_write"
    /\ UNCHANGED <<op, net, flip_evaluation, raised, mainVars>>
    /\ UNCHANGED <<slidingVars, msVars, directVars, heatVars, npyVars>>

\* lines 393-405
MainWrite ==
    /\ pc = "main_write"
    /\ IF ~pspnet.labels
       THEN /\ raised' = "NameError" /\ pc' = "main_raised"
            /\ outputs' = outputs
       ELSE /\ raised' = None
            /\ outputs' = {"_seg", "_probs", "_seg_blended"}
            /\ pc' = IF args.model[2] = "cityscapes" THEN "main_evaluate"
                     ELSE "main_done"
    /\ UNCHANGED <<op, net, flip_evaluation, args, keras_found, image_shape,
                   pspnet, report, predictor_calls, view>>
    /\ UNCHANGED <<slidingVars, msVars, directVars, heatVars, npyVars>>

\* lines 407-413
MainEvaluate ==
    /\ pc = "main_evaluate"
    /\ outputs' = outputs \cup {"_seg_grey"}
    /\ pc' = "main_done"
    /\ UNCHANGED <<op, net, flip_evaluation, raised, args, keras_found,
                   image_shape, pspnet, report, predictor_calls, view>>
    /\ UNCHANGED <<slidingVars, msVars, directVars, heatVars, npyVars>>

(***************************************************************************)
(* The specification.                                                      *)
(***************************************************************************)
Init ==
    \/ InitSliding \/ InitMultiScale \/ InitDirect
    \/ InitHeatmap \/ InitHeatmaps \/ InitNpy \/ InitMain

Next ==
    \/ SlidingStart \/ SlidingTile \/ SlidingNormalize
    \/ MsStart \/ MsScale \/ MsScaleSliding \/ MsScaleDirect \/ MsAccumulate
    \/ MsNormalize
    \/ Predict \/ PredictMirrored
    \/ ShowClassHeatmap
    \/ HeatmapsCall \/ KeyEvent \/ HeatmapsClose
    \/ NpyStart \/ NpyLayer \/ NpyWrite
    \/ MainParse \/ MainBuild \/ MainPredict
    \/ VisualizePrediction \/ ButtonHandler \/ VisualizeClose
    \/ MainWrite \/ MainEvaluate

Spec == Init /\ [][Next]_vars

(***************************************************************************)
(* The claims.                                                             *)
(***************************************************************************)
\* the tile loop of predict_sliding has ended
LoopEnded == pc \in {"sliding_normalize", "sliding_done"}

ImageH == full_image.shape[1]
ImageW == full_image.shape[2]
TileH  == net.input_shape[1]
TileW  == net.input_shape[2]

\* C1: once predict_sliding has processed all its tiles every count is at
\* least 1, and the normalised map holds no result of a division by zero.
C1_EveryPixelCovered ==
    /\ LoopEnded =>
          \A q \in DOMAIN count_predictions : count_predictions[q] >= 1
    /\ pc = "sliding_done" =>
          \A q \in DOMAIN full_probs.v : full_probs.v[q].d # 0

\* C2: an image no larger than the tile in both dimensions is predicted with
\* exactly one tile, and every count is 1 when the tile loop ends.
C2_SmallImageOneTile ==
    (LoopEnded /\ ImageH <= TileH /\ ImageW <= TileW) =>
        /\ tile_rows = 1 /\ tile_cols = 1 /\ tile_counter = 1
        /\ \A q \in DOMAIN count_predictions : count_predictions[q] = 1

\* a single tile was predicted for an image shorter than the tile, padded
C2_Witness ==
    /\ LoopEnded /\ ImageH < TileH /\ ImageW <= TileW
    /\ tile_counter = 1 /\ pad.rows_missing > 0

\* C3: every extracted tile rectangle lies inside the image, is not empty and
\* has exactly the extent min(tile_dim, image_dim) in each dimension; padding
\* is needed only when the image is smaller than the tile in that dimension.
C3_TileInsideImage ==
    tile_counter > 0 =>
        /\ 0 <= tile.y1 /\ tile.y1 < tile.y2 /\ tile.y2 <= ImageH
        /\ 0 <= tile.x1 /\ tile.x1 < tile.x2 /\ tile.x2 <= ImageW
        /\ tile.y2 - tile.y1 = Min(TileH, ImageH)
        /\ tile.x2 - tile.x1 = Min(TileW, ImageW)
        /\ pad.rows_missing >= 0 /\ pad.cols_missing >= 0
        /\ pad.rows_missing > 0 => ImageH < TileH
        /\ pad.cols_missing > 0 => ImageW < TileW

\* a tile clipped at the lower border was shifted back to the full height
C3_Witness ==
    /\ tile_counter > 0
    /\ tile.row * stride + TileH > ImageH
    /\ tile.y1 < tile.row * stride
    /\ tile.y2 - tile.y1 = TileH

\* C4: the stride is ceil(2/3 of the tile size), the numbers of tile rows and
\* columns are max(ceil((image_dim - tile_dim) / stride) + 1, 1), and
\* exactly rows * columns tiles are predicted; 250x250 with a 100x100 tile
\* gives stride 67 and 4 x 4 tiles.
C4_TileCountFormula ==
    /\ pc \in {"sliding_loop", "sliding_normalize", "sliding_done"} =>
          /\ stride = CeilDiv(2 * TileH, 3)
          /\ tile_rows = Max(CeilDiv(ImageH - TileH, CeilDiv(2 * TileH, 3)) + 1, 1)
          /\ tile_cols = Max(CeilDiv(ImageW - TileW, CeilDiv(2 * TileH, 3)) + 1, 1)
    /\ LoopEnded => tile_counter = tile_rows * tile_cols
    /\ SlidingStride(<<100, 100>>) = 67
    /\ TileCount(250, 100, SlidingStride(<<100, 100>>)) = 4

\* toimage takes a side of the image for its channel axis
ChannelAxisClash(shape) == shape[1] = 3 \/ shape[2] = 3

\* C5: predict_multi_scale with the scales [1.0, 1.0] and sliding disabled
\* returns the map of one direct prediction of the same image with the same
\* flip flag.
C5_TwoUnitScales ==
    (op = "predict_multi_scale" /\ pc = "ms_done" /\ ~sliding_evaluation
        /\ scales = <<ScaleOne, ScaleOne>>) =>
        ms_full_probs = PSPNet_predict(net, ms_image, flip_evaluation)

\* What does hold of the two unit scales: the maps are equal for every image
\* that imresize at scale 1.0 returns as it is.
TwoUnitScalesWithoutClash ==
    (op = "predict_multi_scale" /\ pc = "ms_done" /\ ~sliding_evaluation
        /\ scales = <<ScaleOne, ScaleOne>>
        /\ ~ChannelAxisClash(ms_image.shape)) =>
        ms_full_probs = PSPNet_predict(net, ms_image, flip_evaluation)

\* the network commutes with the left-right flip on every input of its shape
FlipEquivariant(n) ==
    \A x \in Images(n.input_shape) :
        model_predict(n, FlipInput(preprocess_image(x)))
            = FlipLR(model_predict(n, preprocess_image(x)))

\* C6: with flip evaluation off, the flipped prediction of the flipped image
\* is the prediction of the image.
C6_FlipSymmetry ==
    (op = "predict" /\ pc = "predict_done" /\ ~flip_evaluation) =>
        mirrored = prediction

\* What does hold of the flip: the two maps are equal when the network
\* itself commutes with the flip and imresize does not take a side of the
\* image for its channel axis.
FlipSymmetryWithoutClash ==
    (op = "predict" /\ pc = "predict_done" /\ ~flip_evaluation
        /\ FlipEquivariant(net)
        /\ (predict_img.shape = net.input_shape
               \/ ~ChannelAxisClash(predict_img.shape))) =>
        mirrored = prediction

\* C7: a class name without an entry in name2label is caught and reported,
\* nothing is shown and show_class_heatmap returns without raising.
C7_MissingClassReported ==
    (op = "show_class_heatmap" /\ pc # "heatmap_call"
        /\ class_name \notin DOMAIN name2label) =>
        /\ pc = "heatmap_returned" /\ raised = None
        /\ hm_reported /\ ~hm_shown

\* C8: a layer without an entry in the npy dump does not stop the import:
\* nothing is raised, every layer is processed and both files are written.
C8_MissingEntryNotFatal ==
    (op = "set_npy_weights" /\ pc \in {"npy_done", "npy_raised"}
        /\ \E i \in DOMAIN layers : layers[i].entry = Absent) =>
        /\ pc = "npy_done" /\ raised = None
        /\ layer_idx = Len(layers) + 1
        /\ files_written = {"json", "h5"}

\* the run is over (or has not begun) and the name was not a model choice
UnknownModelHandled ==
    op = "main" /\ pc # "main_parse" /\ args.model \notin ModelChoices

\* C9 as stated: an unknown model name is reported as a network architecture
\* that is not implemented, and the run stops with no prediction and no
\* output image.
C9_UnknownArchitectureReported ==
    UnknownModelHandled =>
        /\ report = "Network architecture not implemented."
        /\ pc \in {"main_exit", "main_raised"}
        /\ predictor_calls = 0 /\ outputs = {}

\* C9 as amended: an unknown model name is rejected by the argument parser
\* as an invalid choice; the run exits there, with no network constructed,
\* no prediction and no output image.
C9_UnknownModelRejectedByParser ==
    UnknownModelHandled =>
        /\ report = "invalid choice" /\ pc = "main_exit"
        /\ pspnet = NoNet /\ raised = None
        /\ predictor_calls = 0 /\ outputs = {}

\* the parser has turned down a name with a known architecture prefix
C9_Witness ==
    /\ UnknownModelHandled /\ pc = "main_exit"
    /\ args.model[1] = "pspnet101"

\* C10: the index is 0 after every call, stays in 0..C-1 while the window is
\* open, 'right' steps forward and 'left' backward with wrap-around, and any
\* other key changes neither the index nor the number of redraws.
C10_IndexCycles ==
    /\ [](pc = "heatmaps_open" => curr_index \in 0 .. num_classes - 1)
    /\ [][/\ (pc = "heatmaps_call" /\ pc' = "heatmaps_open")
                => curr_index' = 0
          /\ (pc = "heatmaps_open" /\ key_events' = key_events + 1) =>
                /\ last_key' = "right" =>
                      /\ curr_index' = IF curr_index = num_classes - 1 THEN 0
                                       ELSE curr_index + 1
                      /\ redraws' = redraws + 1
                /\ last_key' = "left" =>
                      /\ curr_index' = IF curr_index = 0 THEN num_classes - 1
                                       ELSE curr_index - 1
                      /\ redraws' = redraws + 1
                /\ last_key' \notin {"right", "left"} =>
                      /\ curr_index' = curr_index
                      /\ redraws' = redraws]_vars

\* 'left' has wrapped the index from 0 to the last of three classes
C10_Witness ==
    /\ pc = "heatmaps_open" /\ num_classes = 3
    /\ last_key = "left" /\ curr_index = 2 /\ key_events = 1

====
